---------------------------- MODULE Spec2Model ----------------------------
(***************************************************************************)
(* The /convert handler of the YOLOverlay model conversion service         *)
(* (src/model-service/main.py): download, fingerprint, cache probe,        *)
(* conversion, packaging, upload and signed-URL issue, with the object     *)
(* store shared between the requests in flight.                            *)
(*                                                                         *)
(* Strings the code builds (paths, keys, URLs, details) are records or     *)
(* sequences of their parts; a SHA-256 digest is identified with the       *)
(* sequence of data fed to the hasher (an injective model of the hash).    *)
(***************************************************************************)
EXTENDS Naturals, Sequences, FiniteSets, TLC

\* ------------------------------------------------------------- bounds
\* Worker processes serving /convert, all on one bucket and one /tmp.
NumWorkers == 2

\* Requests one worker process serves, one after the other.
MaxRequests == 2

\* Latest instant of the clock.
MaxClock == 2

\* ---------------------------------------------------- program constants
PRESIGNED_URL_EXPIRY == 3600

Workers == 1..NumWorkers

\* ------------------------------------------------------ request inputs
\* ModelRequest.source: the two sources the handler knows and one it does not.
Sources == {"huggingface", "github", "upload"}

\* ModelRequest.url, as str(request.url) split at "/": a page URL and the
\* URL of the same file in its resolve form.
UrlBlob == <<"github.com", "blob", "m.pt">>
UrlResolve == <<"github.com", "resolve", "m.pt">>
Urls == {UrlBlob, UrlResolve}

\* ModelRequest.token: None (or empty, equally falsy) or a token.
NoToken == ""
Tokens == {NoToken, "tok"}

\* ModelRequest.name as the path text it is used as: None (or empty), a plain
\* file name, an absolute path.
NoName == [abs |-> FALSE, dirs |-> <<>>, stem |-> ""]
PlainName == [abs |-> FALSE, dirs |-> <<>>, stem |-> "net"]
AbsName == [abs |-> TRUE, dirs |-> <<"tmp">>, stem |-> "net"]
Names == {NoName, PlainName, AbsName}

ModelRequest == [url : Urls, source : Sources, name : Names, token : Tokens]

NoRequest == [url |-> <<>>, source |-> "", name |-> NoName, token |-> NoToken]

\* ------------------------------------------------------ remote sources
\* Bodies a remote source may serve, as the chunks iter_content yields: two
\* PyTorch checkpoints (a magic chunk, then the weights) and a text file.
BodyA == <<"PK", "wA">>
BodyB == <<"PK", "wB">>
BodyText == <<"md">>
Bodies == {BodyA, BodyB, BodyText}

\* HTTP statuses of a fetch.
Statuses == {200, 401, 403, 404, 500}

\* str(status_code)
StatusText == (200 :> "200") @@ (400 :> "400") @@ (401 :> "401") @@
              (403 :> "403") @@ (404 :> "404") @@ (500 :> "500")

\* ------------------------------------------------------------- strings
\* "sub in text", for a text held as its parts.
Contains(text, sub) == \E i \in DOMAIN text : text[i] = sub

\* url.replace(old, new) on the parts of a URL.
Replace(url, old, new) == [i \in DOMAIN url |-> IF url[i] = old THEN new ELSE url[i]]

\* url.replace("/blob/", "/"): the part is dropped.
RECURSIVE Drop(_, _)
Drop(url, part) ==
    IF url = <<>> THEN <<>>
    ELSE IF Head(url) = part THEN Drop(Tail(url), part)
    ELSE <<Head(url)>> \o Drop(Tail(url), part)

get_hf_download_url(url) ==
    IF Contains(url, "blob") THEN Replace(url, "blob", "resolve") ELSE url

github_raw_url(url) ==
    IF Contains(url, "github.com")
    THEN LET raw == Replace(url, "github.com", "raw.githubusercontent.com")
         IN  IF Contains(raw, "blob") THEN Drop(raw, "blob") ELSE raw
    ELSE url

\* --------------------------------------------------------- fingerprint
\* The keys of model_params in sorted() order.
KeyOrder == <<"format", "nms", "source", "url">>

KeyRank(k) == CHOOSE i \in DOMAIN KeyOrder : KeyOrder[i] = k

\* sorted(model_params.items()): insertion sort of the (key, value) pairs.
RECURSIVE InsertItem(_, _)
InsertItem(item, sorted) ==
    IF sorted = <<>> THEN <<item>>
    ELSE IF KeyRank(item[1]) <= KeyRank(Head(sorted)[1])
         THEN <<item>> \o sorted
         ELSE <<Head(sorted)>> \o InsertItem(item, Tail(sorted))

\* Variant: the items hashed in the order the dict was built.
SortedItems_AsBuilt(items) == items

RECURSIVE SortedItems(_)
SortedItems(items) ==
    IF items = <<>> THEN <<>>
    ELSE InsertItem(Head(items), SortedItems(Tail(items)))

\* str(...) of the sorted items: the keys and values in order.
RECURSIVE ParamsStr(_)
ParamsStr(items) ==
    IF items = <<>> THEN <<>>
    ELSE <<Head(items)[1]>> \o Head(items)[2] \o ParamsStr(Tail(items))

\* Variant: the request URL is left out of the parameters.
model_params_NoUrl(request) ==
    << <<"format", <<"coreml">> >>,
       <<"nms", <<"True">> >>,
       <<"source", <<request.source>> >> >>

\* The dict built at lines 269-274, in insertion order.
model_params(request) ==
    << <<"format", <<"coreml">> >>,
       <<"nms", <<"True">> >>,
       <<"source", <<request.source>> >>,
       <<"url", request.url>> >>

\* hasher.update(content chunks); hasher.update(params_str); hexdigest().
compute_model_hash(content, params) == content \o ParamsStr(SortedItems(params))

NoHash == <<>>

\* ------------------------------------------------------- store objects
\* f"models/{model_hash}.mlpackage.zip"
StorageKey(model_hash) ==
    [prefix |-> "models/", hash |-> model_hash, ext |-> ".mlpackage.zip"]

\* Variant: the probe looks under a key without the "models/" prefix.
check_key_bare(model_hash) ==
    [prefix |-> "", hash |-> model_hash, ext |-> ".mlpackage.zip"]

check_key(model_hash) == StorageKey(model_hash)

\* Variant: the upload goes under a fixed name, not under the fingerprint.
upload_key_fixed(model_hash) ==
    [prefix |-> "models/", hash |-> <<"model">>, ext |-> ".mlpackage.zip"]

upload_key(model_hash) == StorageKey(model_hash)

NoKey == [prefix |-> "", hash |-> NoHash, ext |-> ""]

\* generate_presigned_url: a URL for the key, valid ExpiresIn seconds from
\* the instant it is signed.
\* Variant: a URL signed without ExpiresIn.
SignedUrl_NoExpiry(key, at) == [key |-> key, issued |-> at, ttl |-> 0]

SignedUrl(key, at) == [key |-> key, issued |-> at, ttl |-> PRESIGNED_URL_EXPIRY]

\* The "" check_model_exists returns with False.
EmptyUrl == [key |-> NoKey, issued |-> 0, ttl |-> 0]

\* ---------------------------------------------------------- the model
\* Variant: a loader that takes any file for a checkpoint.
IsCheckpoint_Any(bytes) == TRUE

\* YOLO(path): a file loads when it is a checkpoint (the magic chunk, then
\* the weights); the loaded model is its weights.
IsCheckpoint(bytes) == Len(bytes) >= 2 /\ bytes[1] = "PK"

\* The weights of a checkpoint (of a file without any, none).
Load(bytes) == IF Len(bytes) >= 2 THEN <<bytes[2]>> ELSE <<>>

\* model.save(model_path): the loaded model serialised again, with the
\* library's own trailer.
Save(model) == <<"PK">> \o model \o <<"meta">>

\* model.export(format="coreml", ...): the .mlpackage directory, as the set
\* of its files, each at its path below the directory.
Export(model) ==
    { [path |-> <<"Manifest.json">>, data |-> <<"manifest">>],
      [path |-> <<"Data", "model.mlmodel">>, data |-> model] }

\* The files model.export writes carry the time they were written, and a zip
\* entry keeps the modification time of its file.
Stamp(tree, at) ==
    { [path |-> e.path, data |-> e.data, mtime |-> at] : e \in tree }

\* shutil.make_archive(base, "zip", root_dir): the files below root_dir, each
\* at its path relative to root_dir.
make_archive(root_name, tree) == tree

\* ---------------------------------------------------------- file system
\* A path: its directory, and the file name as stem and suffix. A stem is a
\* text, followed by a piece of the model hash in the default name.
Stem(text) == [text |-> text, tag |-> NoHash]

TmpRoot == <<"tmp">>

\* The names tempfile gives the scratch directories, one per worker at a time.
ScratchNames == <<"tmpA", "tmpB", "tmpC", "tmpD">>

\* temp_path = Path(temp_dir)
TempPath(r) == TmpRoot \o <<ScratchNames[r]>>

TempNode(r) == [dir |-> TmpRoot, stem |-> Stem(ScratchNames[r]), ext |-> ""]

\* temp_path / "model.pt"
ModelPath(r) == [dir |-> TempPath(r), stem |-> Stem("model"), ext |-> "pt"]

\* The directory model.export writes, beside the model file.
ExportPath(r) == [dir |-> TempPath(r), stem |-> Stem("model"), ext |-> "mlpackage"]

\* model_hash[:8], for the default name.
HashPrefix(model_hash) ==
    SubSeq(model_hash, 1, IF Len(model_hash) < 8 THEN Len(model_hash) ELSE 8)

\* request.name or f"yolo_model_{model_hash[:8]}"
ResolvedName(request, model_hash) ==
    IF request.name = NoName
    THEN [abs |-> FALSE, dirs |-> <<>>,
          stem |-> [text |-> "yolo_model_", tag |-> HashPrefix(model_hash)]]
    ELSE [abs |-> request.name.abs, dirs |-> request.name.dirs,
          stem |-> Stem(request.name.stem)]

\* temp_path / f"{name}.mlpackage": pathlib drops temp_path when the right
\* operand is absolute.
ExportedPath(r, name) ==
    [dir |-> IF name.abs THEN name.dirs ELSE TempPath(r) \o name.dirs,
     stem |-> name.stem, ext |-> "mlpackage"]

\* file_path.parent / f"{file_path.stem}.zip"
ZipPath(file_path) == [dir |-> file_path.dir, stem |-> file_path.stem, ext |-> "zip"]

FileNode(bytes) == [kind |-> "file", bytes |-> bytes, tree |-> {}]
DirNode(tree) == [kind |-> "dir", bytes |-> <<>>, tree |-> tree]
ZipNode(tree) == [kind |-> "zip", bytes |-> <<>>, tree |-> tree]

IsPrefix(s, t) == Len(s) <= Len(t) /\ SubSeq(t, 1, Len(s)) = s

\* A path inside the scratch directory of r, or the directory itself.
InScratch(r, p) == IsPrefix(TempPath(r), p.dir) \/ p = TempNode(r)

\* Variant: a scratch directory made with mkdtemp and never removed.
RemoveTree_Keep(files, r) == files

\* TemporaryDirectory.__exit__: the scratch directory and all below it.
RemoveTree(files, r) ==
    [p \in {q \in DOMAIN files : ~InScratch(r, q)} |-> files[p]]

\* Whether dir is a directory that exists.
DirExists(files, dir) ==
    \/ dir = TmpRoot
    \/ \E r \in Workers : dir = TempPath(r) /\ TempNode(r) \in DOMAIN files

\* ------------------------------------------------------------ responses
Pending == [kind |-> "none", status |-> 0, detail |-> <<>>,
            download_url |-> EmptyUrl, expires_at |-> 0]

\* raise HTTPException(status_code, detail)
HTTPException(status, detail) ==
    [kind |-> "error", status |-> status, detail |-> detail,
     download_url |-> EmptyUrl, expires_at |-> 0]

\* return ModelResponse(download_url, expires_at, metadata)
ModelResponse(url, expires_at) ==
    [kind |-> "result", status |-> 200, detail |-> <<>>,
     download_url |-> url, expires_at |-> expires_at]

\* str(e) of an HTTPException: the status and the detail.
StrHTTP(status, detail) == <<StatusText[status], ": ">> \o detail

\* The messages of the other exceptions a step may raise.
StreamError == <<"ConnectionError", "stream ended early">>
LoadErrors == { <<"invalid load key">>,
                <<"TypeError", "should be a *.pt PyTorch model">>,
                <<"should be a *.pt PyTorch model">> }
FetchErrors == { <<"FileNotFoundError">>, StreamError }

\* ---------------------------------------------------------------- state
VARIABLES
    pc,             \* per worker: the stage its handler is at
    request,        \* per worker: the ModelRequest it was called with
    model_hash,     \* per worker: the fingerprint, once computed
    cached_url,     \* per worker: the URL check_model_exists returned
    download_url,   \* per worker: the URL upload_to_s3 returned
    exported_path,  \* per worker: the package directory after the rename
    resp,           \* per worker: what the caller received
    store,          \* the bucket: storage key -> object
    fs,             \* the local file system: path -> node
    now,            \* the clock (datetime.utcnow())
    served,         \* history: the requests accepted so far
    uploads,        \* history: the uploads that stored an object
    granted,        \* history: the keys of the results returned
    log,            \* history, per worker: the operations of its request, in order
    fetch,          \* history, per worker: what the source answered its request
    probe,          \* history, per worker: the probe, and what was true
    hashing         \* a call of compute_model_hash on its own: inputs, results

vars == <<pc, request, model_hash, cached_url, download_url, exported_path, resp, store, fs,
          now, served, uploads, granted, log, fetch, probe, hashing>>

NoPath == [dir |-> <<>>, stem |-> Stem(""), ext |-> ""]
NoFetch == [url |-> <<>>, auth |-> <<>>, status |-> 0, body |-> <<>>, delivered |-> 0]
NoProbe == [key |-> NoKey, present |-> FALSE, granted |-> FALSE, answer |-> "none"]

Stages == {"idle", "resolving", "fingerprinting", "cache_check", "cache_hit",
           "converting", "packaging", "uploading", "granting", "responding",
           "done", "failed"}

\* No compute_model_hash call outside the handler.
NoHashing == [content |-> <<>>, first |-> <<>>, second |-> <<>>,
              first_hash |-> NoHash, second_hash |-> NoHash]

\* The service has started: no request yet, an empty bucket.
InitHandler ==
    /\ pc = [r \in Workers |-> "idle"]
    /\ request = [r \in Workers |-> NoRequest]
    /\ model_hash = [r \in Workers |-> NoHash]
    /\ cached_url = [r \in Workers |-> EmptyUrl]
    /\ download_url = [r \in Workers |-> EmptyUrl]
    /\ exported_path = [r \in Workers |-> NoPath]
    /\ resp = [r \in Workers |-> Pending]
    /\ store = <<>>
    /\ fs = <<>>
    /\ now = 0
    /\ served = 0
    /\ uploads = {}
    /\ granted = {}
    /\ log = [r \in Workers |-> <<>>]
    /\ fetch = [r \in Workers |-> NoFetch]
    /\ probe = [r \in Workers |-> NoProbe]

Init == InitHandler /\ hashing = NoHashing

\* An entry of the history: the operation, whether it returned (ok) or
\* raised, and the storage key it was called with, if any.
KeyOp(name, ok, key) == [op |-> name, ok |-> ok, key |-> key]

Op(name, ok) == KeyOp(name, ok, NoKey)

Logged(r, name, ok) == log' = [log EXCEPT ![r] = Append(@, Op(name, ok))]

\* Variant: a request that was to convert starts over with the download.
Goto_Retry(r, stage, files) ==
    /\ pc' = [pc EXCEPT ![r] = IF stage = "converting" THEN "resolving" ELSE stage]
    /\ fs' = files
    /\ UNCHANGED <<resp, granted>>

\* The handler goes on to the next stage, with the files as given.
Goto(r, stage, files) ==
    /\ pc' = [pc EXCEPT ![r] = stage]
    /\ fs' = files
    /\ UNCHANGED <<resp, granted>>

\* The handler ends, by raise or return, through the exit of the with block
\* (line 224): the scratch directory is removed, then the caller is answered.
Finish(r, response, files) ==
    /\ pc' = [pc EXCEPT ![r] = IF response.kind = "result" THEN "done" ELSE "failed"]
    /\ fs' = RemoveTree(files, r)
    /\ resp' = [resp EXCEPT ![r] = response]
    /\ granted' = IF response.kind = "result"
                  THEN granted \cup {response.download_url.key}
                  ELSE granted

\* Variant: the catch-all answers with an empty result instead of raising.
InternalError_AsResult(message) == ModelResponse(EmptyUrl, 0)

\* except Exception as e (lines 351-353, 355-359): status 500, detail str(e).
InternalError(message) == HTTPException(500, message)

\* ------------------------------------------------------------- resolve
\* What a source may answer: a status other than 200, or 200 and a body of
\* which the stream delivers all chunks or breaks after some of them.
FetchOutcomes ==
    { [status |-> s, body |-> <<>>, delivered |-> 0] : s \in Statuses \ {200} }
    \cup { o \in [status : {200}, body : Bodies, delivered : 0..2] :
             o.delivered <= Len(o.body) }

\* Variant: a stream that ends early goes unnoticed.
Complete_StatusOnly(o) == o.status = 200

Complete(o) == o.status = 200 /\ o.delivered = Len(o.body)

\* The file as the download loop leaves it (lines 125-127, 175-177).
Written(o) == SubSeq(o.body, 1, o.delivered)

\* download_from_github, lines 109-121: the status of the response.
github_status_error(status) ==
    IF status = 401
    THEN HTTPException(401, <<"Authentication failed - check your token">>)
    ELSE IF status = 403
    THEN HTTPException(403,
             <<"Access forbidden - private repository requires a valid token">>)
    ELSE HTTPException(400, <<"Failed to download model: ", StatusText[status]>>)

\* download_from_huggingface, lines 153-171.
hf_status_error(status) ==
    IF status = 401
    THEN HTTPException(401, <<"Authentication failed - check your token">>)
    ELSE IF status = 403
    THEN HTTPException(403,
             <<"Access forbidden - private repository requires a valid token">>)
    ELSE IF status = 404
    THEN HTTPException(400, <<"Failed to download model: ", "File not found">>)
    ELSE HTTPException(400, <<"Failed to download model: ", "HTTP ", StatusText[status]>>)

\* Variant: no handler around the downloads; the catch-all of the request
\* answers.
hf_except_Absent(message) == HTTPException(500, message)

\* except Exception as e, lines 240-257, around both Hugging Face downloads:
\* whatever was raised, an HTTPException too, is raised again as a 400.
hf_except(message) ==
    IF Contains(message, "UnpicklingError") \/ Contains(message, "invalid load key")
    THEN HTTPException(400, <<"Failed to download model: ", "Invalid file format">>)
    ELSE IF Contains(message, "TypeError")
            /\ Contains(message, "should be a *.pt PyTorch model")
    THEN HTTPException(400, <<"Invalid file type">>)
    ELSE HTTPException(400, <<"Failed to download model: ">> \o message)

\* except HTTPException: raise (lines 348-350).
reraise(exc) == exc

\* headers = {"Authorization": ...} if token else {}
github_headers(token) == IF token # NoToken THEN <<"Authorization", "token ", token>> ELSE <<>>
hf_headers(token) == IF token # NoToken THEN <<"Authorization", "Bearer ", token>> ELSE <<>>

\* with tempfile.TemporaryDirectory() as temp_dir (line 224): a request
\* arrives at an idle worker and its scratch directory is made. Workers are
\* numbered in the order their first request arrives.
Submit(r) ==
    /\ pc[r] = "idle"
    /\ \A q \in Workers : q < r => pc[q] # "idle"
    /\ \E req \in ModelRequest : request' = [request EXCEPT ![r] = req]
    /\ Goto(r, "resolving", (TempNode(r) :> DirNode({})) @@ fs)
    /\ served' = served + 1
    /\ UNCHANGED <<uploads, model_hash, cached_url, download_url, exported_path, store, now, log, fetch, probe>>
    /\ UNCHANGED hashing

\* download_from_github (lines 97-129), called at line 259.
ResolveGithub(r) ==
    /\ pc[r] = "resolving"
    /\ request[r].source = "github"
    /\ \E o \in FetchOutcomes :
         /\ fetch' = [fetch EXCEPT ![r] =
                [url |-> github_raw_url(request[r].url),
                 auth |-> github_headers(request[r].token),
                 status |-> o.status, body |-> o.body, delivered |-> o.delivered]]
         /\ Logged(r, "fetch", Complete(o))
         /\ IF o.status # 200
            THEN Finish(r, reraise(github_status_error(o.status)), fs)
            ELSE LET files == (ModelPath(r) :> FileNode(Written(o))) @@ fs
                 IN  IF Complete(o)
                     THEN Goto(r, "fingerprinting", files)
                     ELSE Finish(r, InternalError(StreamError), files)
    /\ UNCHANGED <<uploads, served, request, model_hash, cached_url, download_url, exported_path, store, now, probe>>
    /\ UNCHANGED hashing

\* download_from_huggingface (lines 142-179), called at line 233 when the
\* request carries a token.
ResolveHFToken(r) ==
    /\ pc[r] = "resolving"
    /\ request[r].source = "huggingface"
    /\ request[r].token # NoToken
    /\ \E o \in FetchOutcomes :
         /\ fetch' = [fetch EXCEPT ![r] =
                [url |-> get_hf_download_url(get_hf_download_url(request[r].url)),
                 auth |-> hf_headers(request[r].token),
                 status |-> o.status, body |-> o.body, delivered |-> o.delivered]]
         /\ Logged(r, "fetch", Complete(o))
         /\ IF o.status # 200
            THEN LET exc == hf_status_error(o.status)
                 IN  Finish(r, reraise(hf_except(StrHTTP(exc.status, exc.detail))), fs)
            ELSE LET files == (ModelPath(r) :> FileNode(Written(o))) @@ fs
                 IN  IF Complete(o)
                     THEN Goto(r, "fingerprinting", files)
                     ELSE Finish(r, reraise(hf_except(StreamError)), files)
    /\ UNCHANGED <<uploads, served, request, model_hash, cached_url, download_url, exported_path, store, now, probe>>
    /\ UNCHANGED hashing

\* YOLO(download_url); model.save(model_path) (lines 237-239), when the
\* request carries no token: the library fetches and loads the file, and the
\* loaded model is saved into the scratch directory.
ResolveHFNoToken(r) ==
    /\ pc[r] = "resolving"
    /\ request[r].source = "huggingface"
    /\ request[r].token = NoToken
    /\ \E o \in FetchOutcomes :
         /\ fetch' = [fetch EXCEPT ![r] =
                [url |-> get_hf_download_url(request[r].url),
                 auth |-> <<>>,
                 status |-> o.status, body |-> o.body, delivered |-> o.delivered]]
         /\ Logged(r, "fetch", Complete(o) /\ IsCheckpoint(o.body))
         /\ IF ~Complete(o)
            THEN \E message \in FetchErrors :
                     Finish(r, reraise(hf_except(message)), fs)
            ELSE IF ~IsCheckpoint(o.body)
            THEN \E message \in LoadErrors :
                     Finish(r, reraise(hf_except(message)), fs)
            ELSE Goto(r, "fingerprinting",
                      (ModelPath(r) :> FileNode(Save(Load(o.body)))) @@ fs)
    /\ UNCHANGED <<uploads, served, request, model_hash, cached_url, download_url, exported_path, store, now, probe>>
    /\ UNCHANGED hashing

\* Variant: an unknown source is not rejected by the handler itself; the
\* catch-all answers.
invalid_source_error_Internal(source) == HTTPException(500, <<"KeyError: ", source>>)

\* raise HTTPException(status_code=400, ...) (lines 263-266).
invalid_source_error(source) ==
    HTTPException(400, <<"Invalid source. Must be 'huggingface' or 'github'">>)

\* Lines 262-266: a source that is neither of the two.
ResolveInvalidSource(r) ==
    /\ pc[r] = "resolving"
    /\ request[r].source \notin {"huggingface", "github"}
    /\ Finish(r, reraise(invalid_source_error(request[r].source)), fs)
    /\ UNCHANGED <<uploads, served, request, model_hash, cached_url, download_url, exported_path, store, now,
                   log, fetch, probe>>
    /\ UNCHANGED hashing

\* ---------------------------------------------------------- fingerprint
\* Lines 268-275: compute_model_hash over the model file and the parameters.
Fingerprint(r) ==
    /\ pc[r] = "fingerprinting"
    /\ model_hash' = [model_hash EXCEPT ![r] =
           compute_model_hash(fs[ModelPath(r)].bytes, model_params(request[r]))]
    /\ Logged(r, "hash", TRUE)
    /\ Goto(r, "cache_check", fs)
    /\ UNCHANGED <<uploads, served, request, cached_url, download_url, exported_path, store, now, fetch, probe>>
    /\ UNCHANGED hashing

\* ---------------------------------------------------------- cache check
\* What head_object may answer: the object's metadata when the key is there
\* and a 404 ClientError when it is not, or, either way, a ClientError of
\* another code (403, 5xx) or an error of the transport (no ClientError).
HeadAnswers(present) ==
    (IF present THEN {"found"} ELSE {"not_found"})
    \cup {"client_error", "transport_error"}

\* except s3_client.exceptions.ClientError (line 62): the answers caught.
CaughtAsMiss(answer) == answer \in {"not_found", "client_error"}

\* generate_presigned_url signs locally; it fails when it cannot sign.
SignOutcomes == {"ok", "error"}

\* check_model_exists (lines 49-64) and the branch at line 279.
CacheCheck(r) ==
    /\ pc[r] = "cache_check"
    /\ LET s3_key == check_key(model_hash[r])
           present == s3_key \in DOMAIN store
       IN  \E answer \in HeadAnswers(present) :
             /\ probe' = [probe EXCEPT ![r] =
                    [key |-> s3_key, present |-> present,
                     granted |-> s3_key \in granted, answer |-> answer]]
             /\ IF answer = "found"
                THEN \E sign \in SignOutcomes :
                       /\ log' = [log EXCEPT ![r] =
                              @ \o <<KeyOp("head", TRUE, s3_key),
                                     KeyOp("sign", sign = "ok", s3_key)>>]
                       /\ IF sign = "ok"
                          THEN /\ cached_url' = [cached_url EXCEPT ![r] =
                                      SignedUrl(s3_key, now)]
                               /\ Goto(r, "cache_hit", fs)
                          ELSE /\ Finish(r, InternalError(<<"NoCredentialsError">>), fs)
                               /\ UNCHANGED cached_url
                ELSE /\ log' = [log EXCEPT ![r] = Append(@, KeyOp("head", FALSE, s3_key))]
                     /\ UNCHANGED cached_url
                     /\ IF CaughtAsMiss(answer)
                        THEN Goto(r, "converting", fs)
                        ELSE Finish(r, InternalError(<<"EndpointConnectionError">>), fs)
    /\ UNCHANGED <<uploads, served, request, model_hash, download_url, exported_path, store, now, fetch>>
    /\ UNCHANGED hashing

\* Lines 280-301: the cached version is returned, after the model was loaded
\* for its metadata.
HitRespond(r) ==
    /\ pc[r] = "cache_hit"
    /\ LET bytes == fs[ModelPath(r)].bytes
       IN  /\ Logged(r, "load", IsCheckpoint(bytes))
           /\ IF IsCheckpoint(bytes)
              THEN Finish(r, ModelResponse(cached_url[r], now + PRESIGNED_URL_EXPIRY), fs)
              ELSE Finish(r, InternalError(<<"invalid load key">>), fs)
    /\ UNCHANGED <<uploads, served, request, model_hash, cached_url, download_url, exported_path,
                   store, now, fetch, probe>>
    /\ UNCHANGED hashing

\* ------------------------------------------------------------- convert
\* model.export may write the package, raise, or return having written none.
ExportOutcomes == {"ok", "raises", "nothing"}

\* Lines 303-315: load the model and export it.
Convert(r) ==
    /\ pc[r] = "converting"
    /\ LET bytes == fs[ModelPath(r)].bytes
       IN  IF ~IsCheckpoint(bytes)
           THEN /\ Logged(r, "load", FALSE)
                /\ Finish(r, InternalError(<<"invalid load key">>), fs)
           ELSE \E out \in ExportOutcomes :
                  /\ log' = [log EXCEPT ![r] =
                         @ \o <<Op("load", TRUE), Op("export", out = "ok")>>]
                  /\ IF out = "ok"
                     THEN Goto(r, "packaging",
                               (ExportPath(r) :> DirNode(Stamp(Export(Load(bytes)), now))) @@ fs)
                     ELSE IF out = "nothing"
                     THEN Goto(r, "packaging", fs)
                     ELSE Finish(r, InternalError(<<"export failed">>), fs)
    /\ UNCHANGED <<uploads, served, request, model_hash, cached_url, download_url, exported_path,
                   store, now, fetch, probe>>
    /\ UNCHANGED hashing

\* list(temp_path.glob("*.mlpackage"))
exported_files(files, r) ==
    { p \in DOMAIN files : p.dir = TempPath(r) /\ p.ext = "mlpackage" }

\* Path.rename: the target's directory must exist, and the target must not be
\* another directory with files in it.
CanRename(files, from, to) ==
    /\ DirExists(files, to.dir)
    /\ to \in DOMAIN files => to = from

\* Lines 317-327: find the package and give it the request's name.
Package(r) ==
    /\ pc[r] = "packaging"
    /\ LET found == exported_files(fs, r)
           name == ResolvedName(request[r], model_hash[r])
           to == ExportedPath(r, name)
       IN  IF found = {}
           THEN /\ Logged(r, "glob", FALSE)
                /\ Finish(r, reraise(HTTPException(500,
                       <<"Model export failed - CoreML package not created">>)), fs)
                /\ UNCHANGED exported_path
           ELSE LET from == CHOOSE p \in found : TRUE
                IN  IF CanRename(fs, from, to)
                    THEN /\ log' = [log EXCEPT ![r] =
                                @ \o <<Op("glob", TRUE), Op("rename", TRUE)>>]
                         /\ exported_path' = [exported_path EXCEPT ![r] = to]
                         /\ Goto(r, "uploading",
                                 (to :> fs[from]) @@
                                 [p \in DOMAIN fs \ {from} |-> fs[p]])
                    ELSE /\ log' = [log EXCEPT ![r] =
                                @ \o <<Op("glob", TRUE), Op("rename", FALSE)>>]
                         /\ Finish(r, InternalError(<<"OSError">>), fs)
                         /\ UNCHANGED exported_path
    /\ UNCHANGED <<uploads, served, request, model_hash, cached_url, download_url, store, now,
                   fetch, probe>>
    /\ UNCHANGED hashing

\* -------------------------------------------------------------- upload
\* make_archive may write the zip or raise (no space left, a file unreadable).
ArchiveOutcomes == {"ok", "error"}

\* upload_file may store the object or raise.
PutOutcomes == {"ok", "error"}

\* Variant: upload_to_s3 without its own handler; str(e) alone is the detail.
upload_error_Bare(message) == HTTPException(500, message)

\* except Exception as e in upload_to_s3 (lines 92-94).
upload_error(message) == HTTPException(500, <<"Failed to upload model: ">> \o message)

\* upload_to_s3, lines 69-82: zip the package directory and upload the zip.
Upload(r) ==
    /\ pc[r] = "uploading"
    /\ LET s3_key == upload_key(model_hash[r])
           file_path == exported_path[r]
           zip_path == ZipPath(file_path)
           archive == make_archive(file_path.stem, fs[file_path].tree)
           files == (zip_path :> ZipNode(archive)) @@ fs
       IN  \E zip \in ArchiveOutcomes, put \in PutOutcomes :
             IF zip = "error"
             THEN /\ put = "error"
                  /\ Logged(r, "archive", FALSE)
                  /\ Finish(r, reraise(upload_error(<<"OSError">>)), fs)
                  /\ UNCHANGED <<store, uploads>>
             ELSE /\ log' = [log EXCEPT ![r] =
                         @ \o <<Op("archive", TRUE), KeyOp("put", put = "ok", s3_key)>>]
                  /\ IF put = "ok"
                     THEN /\ store' = (s3_key :> [body |-> files[zip_path].tree,
                                                  content_type |-> "application/zip"])
                                      @@ store
                          /\ uploads' = uploads \cup
                                 {[key |-> s3_key, bytes |-> fs[ModelPath(r)].bytes,
                                   log |-> log'[r]]}
                          /\ Goto(r, "granting", files)
                     ELSE /\ Finish(r, reraise(upload_error(<<"S3UploadFailedError">>)),
                                    files)
                          /\ UNCHANGED <<store, uploads>>
    /\ UNCHANGED <<served, request, model_hash, cached_url, download_url, exported_path,
                   now, fetch, probe>>
    /\ UNCHANGED hashing

\* upload_to_s3, lines 84-94: the signed URL of the object just stored.
Grant(r) ==
    /\ pc[r] = "granting"
    /\ \E sign \in SignOutcomes :
         /\ log' = [log EXCEPT ![r] =
                Append(@, KeyOp("sign", sign = "ok", upload_key(model_hash[r])))]
         /\ IF sign = "ok"
            THEN /\ download_url' = [download_url EXCEPT ![r] =
                        SignedUrl(upload_key(model_hash[r]), now)]
                 /\ Goto(r, "responding", fs)
            ELSE /\ Finish(r, reraise(upload_error(<<"NoCredentialsError">>)), fs)
                 /\ UNCHANGED download_url
    /\ UNCHANGED <<uploads, served, request, model_hash, cached_url, exported_path, store, now,
                   fetch, probe>>
    /\ UNCHANGED hashing

\* Lines 331-346: the expiry, the metadata, the response.
MissRespond(r) ==
    /\ pc[r] = "responding"
    /\ Finish(r, ModelResponse(download_url[r], now + PRESIGNED_URL_EXPIRY), fs)
    /\ UNCHANGED <<uploads, served, request, model_hash, cached_url, download_url, exported_path,
                   store, now, log, fetch, probe>>
    /\ UNCHANGED hashing

\* Time passes.
Tick ==
    /\ now < MaxClock
    /\ now' = now + 1
    /\ UNCHANGED <<uploads, granted, served, pc, request, model_hash, cached_url, download_url, exported_path,
                   resp, store, fs, log, fetch, probe>>
    /\ UNCHANGED hashing

\* The handler has answered; the worker is free for the next request, and
\* nothing of the last one is kept in the process.
Recycle(r) ==
    /\ pc[r] \in {"done", "failed"}
    /\ served < MaxRequests
    /\ pc' = [pc EXCEPT ![r] = "idle"]
    /\ request' = [request EXCEPT ![r] = NoRequest]
    /\ model_hash' = [model_hash EXCEPT ![r] = NoHash]
    /\ cached_url' = [cached_url EXCEPT ![r] = EmptyUrl]
    /\ download_url' = [download_url EXCEPT ![r] = EmptyUrl]
    /\ exported_path' = [exported_path EXCEPT ![r] = NoPath]
    /\ resp' = [resp EXCEPT ![r] = Pending]
    /\ log' = [log EXCEPT ![r] = <<>>]
    /\ fetch' = [fetch EXCEPT ![r] = NoFetch]
    /\ probe' = [probe EXCEPT ![r] = NoProbe]
    /\ UNCHANGED <<store, fs, now, served, uploads, granted>>
    /\ UNCHANGED hashing

\* One step of the handler of the request worker r serves.
Handler(r) ==
    \/ Submit(r)
    \/ ResolveGithub(r)
    \/ ResolveHFToken(r)
    \/ ResolveHFNoToken(r)
    \/ ResolveInvalidSource(r)
    \/ Fingerprint(r)
    \/ CacheCheck(r)
    \/ HitRespond(r)
    \/ Convert(r)
    \/ Package(r)
    \/ Upload(r)
    \/ Grant(r)
    \/ MissRespond(r)

\* One server process: convert_model is a coroutine that never awaits, so
\* the event loop runs each request to its end before it starts the next.
Next == Handler(1) \/ Recycle(1)

Spec == Init /\ [][Next]_vars

\* Several worker processes, each serving one request, in any interleaving
\* of their steps.
NextWorkers == \E r \in Workers : Handler(r)

SpecWorkers == Init /\ [][NextWorkers]_vars

\* One server process, and the clock: time passes between any two steps.
NextTimed == Handler(1) \/ Recycle(1) \/ Tick

SpecTimed == Init /\ [][NextTimed]_vars

\* ----------------------------------------------- compute_model_hash alone
\* The orders in which a dict holding these items can have been built.
Orderings(items) ==
    LET n == DOMAIN items
    IN  { [i \in n |-> items[q[i]]] :
            q \in { f \in [n -> n] : \A i, j \in n : f[i] = f[j] => i = j } }

\* The parameter dicts of the handler, for every source and locator.
HashParams ==
    { model_params(req) :
        req \in [url : Urls, source : Sources, name : {NoName}, token : {NoToken}] }

\* A model file, and one parameter dict built in two orders.
HashInputs ==
    { [content |-> c, first |-> a, second |-> b,
       first_hash |-> NoHash, second_hash |-> NoHash] :
        c \in Bodies, a \in UNION { Orderings(m) : m \in HashParams },
        b \in UNION { Orderings(m) : m \in HashParams } }

InitHash ==
    /\ InitHandler
    /\ hashing \in { h \in HashInputs : h.second \in Orderings(h.first) }

\* compute_model_hash(model_path, first)
HashFirst ==
    /\ hashing.first_hash = NoHash
    /\ hashing' = [hashing EXCEPT
           !.first_hash = compute_model_hash(hashing.content, hashing.first)]
    /\ UNCHANGED <<pc, request, model_hash, cached_url, download_url, exported_path,
                   resp, store, fs, now, served, uploads, granted, log, fetch, probe>>

\* compute_model_hash(model_path, second)
HashSecond ==
    /\ hashing.second_hash = NoHash
    /\ hashing' = [hashing EXCEPT
           !.second_hash = compute_model_hash(hashing.content, hashing.second)]
    /\ UNCHANGED <<pc, request, model_hash, cached_url, download_url, exported_path,
                   resp, store, fs, now, served, uploads, granted, log, fetch, probe>>

\* The two calls, in either order and at any time.
NextHash == HashFirst \/ HashSecond \/ Tick

SpecHash == InitHash /\ [][NextHash]_vars

\* ------------------------------------------------- reading the history
\* The operation was run and returned (ok) or raised.
Ran(r, name, ok) == \E i \in DOMAIN log[r] : log[r][i].op = name /\ log[r][i].ok = ok

Invoked(r, name) == Ran(r, name, TRUE) \/ Ran(r, name, FALSE)

\* The stages of the miss path, from the conversion to the response.
MissStages == {"converting", "packaging", "uploading", "granting", "responding"}

Ended(r) == pc[r] \in {"done", "failed"}

\* models/{fingerprint}.mlpackage.zip, spelled out.
CanonicalKey(fingerprint) ==
    [prefix |-> "models/", hash |-> fingerprint, ext |-> ".mlpackage.zip"]

\* The file content a fingerprint was computed over: what was fed to the
\* hasher before the parameters, whose first key is "format".
HashedBytes(fingerprint) ==
    LET i == CHOOSE j \in DOMAIN fingerprint :
                 /\ fingerprint[j] = "format"
                 /\ \A m \in 1..(j - 1) : fingerprint[m] # "format"
    IN  SubSeq(fingerprint, 1, i - 1)

IsSuffix(s, t) == Len(s) <= Len(t) /\ SubSeq(t, Len(t) - Len(s) + 1, Len(t)) = s

\* The archive holds the files of the conversion output of the model file
\* `bytes`, and no others.
IsPackagedOutput(archive, bytes) ==
    /\ Len(bytes) >= 2 /\ bytes[1] = "PK"
    /\ LET out == { [path |-> <<"Manifest.json">>, data |-> <<"manifest">>],
                    [path |-> <<"Data", "model.mlmodel">>, data |-> <<bytes[2]>>] }
       IN  /\ Cardinality(archive) = Cardinality(out)
           /\ \A e \in out : \E a \in archive :
                  a.data = e.data /\ IsSuffix(e.path, a.path)

\* The source answered the request of r with a complete body.
FetchedWhole(r) ==
    fetch[r].status = 200 /\ fetch[r].delivered = Len(fetch[r].body)

\* The resolve step of r has run and failed.
ResolveFailed(r) ==
    /\ fetch[r] # NoFetch
    /\ \/ ~FetchedWhole(r)
       \/ /\ request[r].source = "huggingface"
          /\ request[r].token = NoToken
          /\ ~(Len(fetch[r].body) >= 2 /\ fetch[r].body[1] = "PK")

\* ---------------------------------------------------------------- claims

\* C1: in a sequence of non-overlapping requests, a request whose storage
\* key was already returned by a request that reached DONE is never treated
\* as a miss: it does not proceed to the conversion, does not invoke export,
\* does not put, and when it is DONE its grant is for that same key.
C1_CachedIsNeverConvertedAgain ==
    \A r \in Workers :
        probe[r].granted =>
            /\ pc[r] \notin MissStages
            /\ ~Invoked(r, "export")
            /\ ~Invoked(r, "put")
            /\ pc[r] = "done" => resp[r].download_url.key = probe[r].key

\* C2: whatever the interleaving of two workers, no fingerprint has objects
\* under two keys, and a request that is DONE has exactly one object for its
\* fingerprint, under models/{fingerprint}.mlpackage.zip, holding the
\* packaged conversion output of its model file, and its grant is for that
\* key; a DONE request whose probe found nothing has converted and uploaded.
C2_RaceIsCorrectnessPreserving ==
    /\ \A k1, k2 \in DOMAIN store : k1.hash = k2.hash => k1 = k2
    /\ \A r \in Workers :
         pc[r] = "done" =>
            LET key == CanonicalKey(model_hash[r])
            IN  /\ key \in DOMAIN store
                /\ Cardinality({k \in DOMAIN store : k.hash = model_hash[r]}) = 1
                /\ IsPackagedOutput(store[key].body, HashedBytes(model_hash[r]))
                /\ resp[r].download_url.key = key
                /\ probe[r].answer = "not_found" =>
                       Ran(r, "export", TRUE) /\ Ran(r, "put", TRUE)

\* C2 witness: two requests with one fingerprint both probed before either
\* had put, both converted, both uploaded, and both are DONE.
C2_BothMissedBothUploaded ==
    /\ pc[1] = "done" /\ pc[2] = "done"
    /\ model_hash[1] = model_hash[2]
    /\ \A r \in {1, 2} :
         /\ probe[r].answer = "not_found"
         /\ ~probe[r].present
         /\ Ran(r, "export", TRUE)
         /\ Ran(r, "put", TRUE)

\* The operations of an upload's history up to the put, each of which
\* returned: the fetch, the load, the export, the rename, the archive, and
\* last the put.
FullConversion(l) ==
    /\ Len(l) >= 6
    /\ l[Len(l)].op = "put" /\ l[Len(l)].ok
    /\ l[Len(l) - 1].op = "archive" /\ l[Len(l) - 1].ok
    /\ l[Len(l) - 2].op = "rename" /\ l[Len(l) - 2].ok
    /\ l[Len(l) - 3].op = "glob" /\ l[Len(l) - 3].ok
    /\ l[Len(l) - 4].op = "export" /\ l[Len(l) - 4].ok
    /\ l[Len(l) - 5].op = "load" /\ l[Len(l) - 5].ok
    /\ \A i \in DOMAIN l : l[i].op = "put" => i = Len(l)

\* C3: every object in the store was put by a request that had loaded its
\* model file, exported it, found and renamed the package and archived it,
\* and holds that conversion output; a request whose model file does not
\* load, whose export raised or whose export left no package has not put.
C3_StoredOnlyAfterFullConversion ==
    /\ \A k \in DOMAIN store :
         /\ \E u \in uploads : u.key = k /\ FullConversion(u.log)
         /\ IsPackagedOutput(store[k].body, HashedBytes(k.hash))
    /\ \A r \in Workers :
         (Ran(r, "load", FALSE) \/ Ran(r, "export", FALSE) \/ Ran(r, "glob", FALSE))
            => ~Invoked(r, "put")

\* C3 witness: an object is stored, and a request whose export raised has
\* ended with nothing under its key.
C3_FailedExportStoredNothing ==
    \E r \in Workers :
        /\ pc[r] = "failed"
        /\ Ran(r, "export", FALSE)
        /\ CanonicalKey(model_hash[r]) \notin DOMAIN store
        /\ DOMAIN store # {}

\* C4: a request has ended exactly when the caller has a result (DONE) or a
\* failure (FAILED); a result carries a URL that was signed for the
\* request's own storage key, an object is in the store under that key, and
\* the probe found it or the request's own put returned; a failure carries
\* no URL.
C4_ResultOnlyAfterGrant ==
    \A r \in Workers :
        /\ resp[r].kind = "result" <=> pc[r] = "done"
        /\ resp[r].kind = "error" <=> pc[r] = "failed"
        /\ resp[r].kind = "none" <=> ~Ended(r)
        /\ resp[r].kind = "result" =>
             LET key == CanonicalKey(model_hash[r])
             IN  /\ model_hash[r] # NoHash
                 /\ resp[r].download_url.key = key
                 /\ \E i \in DOMAIN log[r] :
                        log[r][i] = KeyOp("sign", TRUE, key)
                 /\ key \in DOMAIN store
                 /\ \/ probe[r].answer = "found" /\ probe[r].present
                    \/ \E i \in DOMAIN log[r] : log[r][i] = KeyOp("put", TRUE, key)
        /\ resp[r].kind # "result" => resp[r].download_url = EmptyUrl

\* C4 witness: a result returned on a cache hit.
C4_ResultOnHit ==
    \E r \in Workers :
        pc[r] = "done" /\ probe[r].answer = "found" /\ resp[r].kind = "result"

\* C5: a request that failed because the source answered with a status other
\* than 200 carries that status' kind: 401 the auth-required kind (401), 403
\* the access-denied kind (403), 404 a not-found detail, any other status a
\* detail with the raw status.
C5_SourceStatusReachesCaller ==
    \A r \in Workers :
        (pc[r] = "failed" /\ fetch[r].status \notin {0, 200}) =>
            LET st == fetch[r].status
            IN  IF st = 401 THEN resp[r].status = 401
                ELSE IF st = 403 THEN resp[r].status = 403
                ELSE /\ resp[r].status \notin {401, 403}
                     /\ \/ Contains(resp[r].detail, StatusText[st])
                        \/ st = 404 /\ Contains(resp[r].detail, "File not found")

\* C6: once the resolve step of a request has failed, the request is FAILED
\* with nothing but the fetch in its history: no fingerprint, no probe, no
\* conversion, no put, and nothing of its scratch directory is left.
C6_ResolveFailureEndsRequest ==
    \A r \in Workers :
        ResolveFailed(r) =>
            /\ pc[r] = "failed"
            /\ resp[r].kind = "error"
            /\ model_hash[r] = NoHash
            /\ probe[r] = NoProbe
            /\ Len(log[r]) = 1 /\ log[r][1] = Op("fetch", FALSE)
            /\ \A p \in DOMAIN fs :
                   ~(p = TempNode(r) \/ IsPrefix(TempPath(r), p.dir))

\* C6 witness: a request failed on a 404 from the source.
C6_FailedOn404 ==
    \E r \in Workers : pc[r] = "failed" /\ fetch[r].status = 404

\* C7: a probe answered by an error other than not-found, or a URL that
\* could not be signed for an object found, ends the request with a failure
\* of status 500 and no conversion; only a not-found answer leads to the
\* miss path.
C7_ProbeErrorIsStoreFailure ==
    \A r \in Workers :
        /\ (\/ probe[r].answer \in {"client_error", "transport_error"}
            \/ probe[r].answer = "found" /\ Ran(r, "sign", FALSE))
             => /\ pc[r] = "failed"
                /\ resp[r].status = 500
                /\ ~Invoked(r, "export")
        /\ (pc[r] \in MissStages \/ Invoked(r, "export"))
             => probe[r].answer = "not_found"

\* C8: when no request is in flight, no file any request created is left.
C8_NoTemporaryFileSurvives ==
    (\A r \in Workers : pc[r] \in {"idle", "done", "failed"}) => DOMAIN fs = {}

\* C9: every store operation of a request (probe, put, sign) is called with
\* models/{fingerprint}.mlpackage.zip for the request's fingerprint, the URLs
\* it holds and returns are signed for that key, and every key in the store
\* has this form, for a fingerprint some request uploaded.
C9_OneKeyPerRequest ==
    /\ \A r \in Workers :
         LET key == CanonicalKey(model_hash[r])
         IN  /\ \A i \in DOMAIN log[r] :
                    log[r][i].op \in {"head", "sign", "put"} =>
                        model_hash[r] # NoHash /\ log[r][i].key = key
             /\ probe[r] # NoProbe => probe[r].key = key
             /\ cached_url[r] # EmptyUrl => cached_url[r].key = key
             /\ download_url[r] # EmptyUrl => download_url[r].key = key
             /\ resp[r].kind = "result" => resp[r].download_url.key = key
    /\ \A k \in DOMAIN store :
         /\ k.prefix = "models/" /\ k.ext = ".mlpackage.zip" /\ k.hash # NoHash
         /\ \E u \in uploads : u.key = k

\* C9 witness: a request on the miss path has probed, put and signed, and
\* returned its result.
C9_ProbedPutSigned ==
    \E r \in Workers :
        /\ pc[r] = "done"
        /\ Ran(r, "head", FALSE) /\ Ran(r, "put", TRUE) /\ Ran(r, "sign", TRUE)

\* C10: at every stage after the download, the model file is there and is
\* the whole body of a fetch that ended well (on the path without a token,
\* the model loaded from it and saved), and a fingerprint, once computed, is
\* the fingerprint of that content.
C10_LaterStagesReadCompleteFile ==
    \A r \in Workers :
        LET whole == IF request[r].source = "huggingface" /\ request[r].token = NoToken
                     THEN <<"PK", fetch[r].body[2], "meta">>
                     ELSE fetch[r].body
        IN  /\ pc[r] \in {"fingerprinting", "cache_check", "cache_hit",
                          "converting", "packaging", "uploading"} =>
                 /\ FetchedWhole(r)
                 /\ ModelPath(r) \in DOMAIN fs
                 /\ fs[ModelPath(r)].bytes = whole
            /\ model_hash[r] # NoHash =>
                 /\ FetchedWhole(r)
                 /\ HashedBytes(model_hash[r]) = whole

\* C10 witness: a download broke after part of the body was written, and the
\* request ended there.
C10_DownloadBrokeMidStream ==
    \E r \in Workers :
        /\ pc[r] = "failed"
        /\ fetch[r].status = 200
        /\ 0 < fetch[r].delivered /\ fetch[r].delivered < Len(fetch[r].body)
        /\ model_hash[r] = NoHash

\* C11: the archive a request has just uploaded holds the package directory
\* as its single top-level entry, each file of the directory at its relative
\* path below that entry, and nothing else, so that unpacking it gives back
\* the directory.
C11_ArchiveKeepsPackageDirectory ==
    \A r \in Workers :
        pc[r] = "granting" =>
            LET tree == fs[exported_path[r]].tree
                archive == store[CanonicalKey(model_hash[r])].body
            IN  /\ Cardinality(archive) = Cardinality(tree)
                /\ \A e \in tree : \E a \in archive :
                       /\ a.data = e.data
                       /\ Len(a.path) = Len(e.path) + 1
                       /\ Tail(a.path) = e.path
                /\ \A a, b \in archive : a.path[1] = b.path[1]

\* The value a parameter dict holds for a key.
ValueOf(items, key) ==
    items[CHOOSE i \in DOMAIN items : items[i][1] = key][2]

\* C12: for a file content and a parameter dict built in two orders, the
\* bytes fed to the hash are the same in both calls, whenever each is made:
\* the content, then the parameters in the order of their keys (format, nms,
\* source, url) and nothing else.
C12_HashIgnoresInsertionOrder ==
    LET fed == hashing.content
               \o <<"format">> \o ValueOf(hashing.first, "format")
               \o <<"nms">> \o ValueOf(hashing.first, "nms")
               \o <<"source">> \o ValueOf(hashing.first, "source")
               \o <<"url">> \o ValueOf(hashing.first, "url")
    IN  /\ hashing.first_hash # NoHash => hashing.first_hash = fed
        /\ hashing.second_hash # NoHash => hashing.second_hash = fed

\* C12 witness: both calls were made, at different times, on dicts built in
\* different orders.
C12_HashedInTwoOrders ==
    /\ hashing.first_hash # NoHash
    /\ hashing.second_hash # NoHash
    /\ hashing.first # hashing.second
    /\ hashing.first[1][1] = "url"
    /\ now > 0

\* C13: no step of the service removes an object from the store or changes
\* the object under a key that already has one.
C13_StoreIsWriteOnce ==
    [][\A k \in DOMAIN store : k \in DOMAIN store' /\ store'[k] = store[k]]_vars

\* C14: every URL a step signs, on the hit path and on the miss path, is
\* valid for 3600 seconds from that step, and every step that returns a
\* result returns a URL of that validity and an expires_at 3600 seconds
\* after that step, which is later than the time of the return.
C14_GrantsLastOneHour ==
    [][\A r \in Workers :
         /\ (cached_url'[r] # cached_url[r] /\ cached_url'[r] # EmptyUrl) =>
                cached_url'[r].ttl = 3600 /\ cached_url'[r].issued = now
         /\ (download_url'[r] # download_url[r] /\ download_url'[r] # EmptyUrl) =>
                download_url'[r].ttl = 3600 /\ download_url'[r].issued = now
         /\ (pc[r] # "done" /\ pc'[r] = "done") =>
                /\ resp'[r].download_url.ttl = 3600
                /\ resp'[r].expires_at = now + 3600
                /\ resp'[r].expires_at > now']_vars

\* C14 witness: a result of the miss path and, later, a result of the hit
\* path have been returned.
C14_HitResultAfterMissResult ==
    \E r \in Workers :
        /\ pc[r] = "done"
        /\ probe[r].answer = "found"
        /\ resp[r].download_url.issued > 0
        /\ resp[r].download_url.ttl = 3600
        /\ \E u \in uploads : u.key = resp[r].download_url.key

\* C20: the expires_at of a result is not later than the time at which the
\* URL of that result stops being valid (the time it was signed plus its
\* validity).
C20_ExpiryNotOverstated ==
    \A r \in Workers :
        resp[r].kind = "result" =>
            resp[r].expires_at
                <= resp[r].download_url.issued + resp[r].download_url.ttl

StageOrder ==
    { <<"idle", "resolving">>,
      <<"resolving", "fingerprinting">>,
      <<"fingerprinting", "cache_check">>,
      <<"cache_check", "cache_hit">>, <<"cache_hit", "done">>,
      <<"cache_check", "converting">>, <<"converting", "packaging">>,
      <<"packaging", "uploading">>, <<"uploading", "granting">>,
      <<"granting", "responding">>, <<"responding", "done">> }
    \cup { <<s, "failed">> : s \in {"resolving", "fingerprinting", "cache_check",
                                     "cache_hit", "converting", "packaging",
                                     "uploading", "granting"} }

\* The operations of a request in the order of the stages: on a hit the URL
\* is signed with the probe and the model is loaded for the metadata; on a
\* miss come the load, the export, the package, the archive, the put and
\* then the URL.
HitOps == <<"fetch", "hash", "head", "sign", "load">>
MissOps == <<"fetch", "hash", "head", "load", "export", "glob", "rename",
             "archive", "put", "sign">>

FollowsOrder(l, ops) ==
    Len(l) <= Len(ops) /\ \A i \in DOMAIN l : l[i].op = ops[i]

\* C16: a request changes stage only along RESOLVING, FINGERPRINTING,
\* CACHE_CHECK, then the hit stage or CONVERTING, PACKAGING, UPLOADING,
\* GRANTING, then DONE, or to FAILED; its operations are run in that order,
\* each at most once; and once it has ended, nothing more is run for it: its
\* history, its fingerprint and its answer stay as they are until the worker
\* takes the next request.
C16_StagesInOrderNoRetry ==
    [][\A r \in Workers :
         /\ pc'[r] # pc[r] =>
                \/ <<pc[r], pc'[r]>> \in StageOrder
                \/ pc[r] \in {"done", "failed"} /\ pc'[r] = "idle" /\ log'[r] = <<>>
         /\ FollowsOrder(log'[r], HitOps) \/ FollowsOrder(log'[r], MissOps)
         /\ log'[r] # log[r] =>
                /\ pc'[r] # pc[r]
                /\ pc[r] \in {"done", "failed"} => pc'[r] = "idle"
         /\ (pc[r] \in {"done", "failed"} /\ pc'[r] # "idle") =>
                /\ pc'[r] = pc[r]
                /\ resp'[r] = resp[r]
                /\ model_hash'[r] = model_hash[r]
                /\ probe'[r] = probe[r]]_vars

\* C16 witness: a request has gone through every stage of the miss path.
C16_WholeMissPath ==
    \E r \in Workers :
        /\ pc[r] = "done"
        /\ Len(log[r]) = Len(MissOps)
        /\ \A i \in DOMAIN log[r] : log[r][i].op = MissOps[i]

\* C17: on the miss path a URL is signed only after the put of the same
\* request has returned, for the key of that put; a request whose archive or
\* put raised has signed no URL and has failed with status 500 and a detail
\* that begins with "Failed to upload model"; the URL of a result of the miss
\* path is the one signed after the put.
C17_UrlOnlyAfterPut ==
    \A r \in Workers :
        /\ \A i \in DOMAIN log[r] :
             (log[r][i].op = "sign" /\ ~(log[r][3].op = "head" /\ log[r][3].ok)) =>
                 /\ i > 1
                 /\ log[r][i - 1].op = "put"
                 /\ log[r][i - 1].ok
                 /\ log[r][i - 1].key = log[r][i].key
                 /\ log[r][i].key \in DOMAIN store
        /\ (Ran(r, "archive", FALSE) \/ Ran(r, "put", FALSE)) =>
             /\ ~Invoked(r, "sign")
             /\ download_url[r] = EmptyUrl
             /\ pc[r] = "failed"
             /\ resp[r].status = 500
             /\ resp[r].detail[1] = "Failed to upload model: "
        /\ (pc[r] = "done" /\ Ran(r, "put", TRUE)) =>
             /\ resp[r].download_url = download_url[r]
             /\ log[r][Len(log[r])] = KeyOp("sign", TRUE, resp[r].download_url.key)
             /\ log[r][Len(log[r]) - 1] = KeyOp("put", TRUE, resp[r].download_url.key)

\* C17 witness: the upload of a request raised, after an earlier request had
\* been answered on the miss path.
C17_PutRaised ==
    \E r \in Workers :
        /\ pc[r] = "failed"
        /\ Ran(r, "put", FALSE)
        /\ uploads # {}

\* C18: a request whose source is neither "huggingface" nor "github" goes
\* from its first stage to FAILED with status 400 and the detail "Invalid
\* source. ...", and nothing was done for it: no fetch, no fingerprint, no
\* store operation, no load or export, no file left in its scratch directory.
C18_InvalidSourceRejectedFirst ==
    \A r \in Workers :
        (pc[r] # "idle" /\ request[r].source \notin {"huggingface", "github"}) =>
            /\ pc[r] \in {"resolving", "failed"}
            /\ log[r] = <<>>
            /\ fetch[r] = NoFetch
            /\ model_hash[r] = NoHash
            /\ probe[r] = NoProbe
            /\ cached_url[r] = EmptyUrl /\ download_url[r] = EmptyUrl
            /\ pc[r] = "failed" =>
                 /\ resp[r].kind = "error"
                 /\ resp[r].status = 400
                 /\ resp[r].detail = <<"Invalid source. Must be 'huggingface' or 'github'">>
                 /\ \A p \in DOMAIN fs : p.dir # TempPath(r)

\* C18 witness: a request with source "upload" has been rejected.
C18_UploadSourceRejected ==
    \E r \in Workers :
        /\ request[r].source = "upload"
        /\ pc[r] = "failed"
        /\ resp[r].status = 400

\* C19: a request that has failed has left the store as it found it: it has
\* put nothing, and an object is under its key only if the object was there
\* already when the request probed.
C19_FailedRequestStoresNothing ==
    \A r \in Workers :
        pc[r] = "failed" =>
            /\ ~Ran(r, "put", TRUE)
            /\ CanonicalKey(model_hash[r]) \in DOMAIN store => probe[r].present

\* The content of the model file of a request, from what the source sent:
\* the body itself, or, on the Hugging Face path without a token, the model
\* loaded from it and saved.
ResolvedBytes(r) ==
    IF request[r].source = "huggingface" /\ request[r].token = NoToken
    THEN <<"PK", fetch[r].body[2], "meta">>
    ELSE fetch[r].body

\* C21: the fingerprint of a request is made of the content of its model
\* file, its source and its URL, and of nothing else. Of two requests with
\* the same file content, those with the same source and URL, whatever their
\* names and tokens, have one fingerprint and one storage key, and are
\* answered with that key; those that differ in source or URL have different
\* fingerprints, and when both are answered each has converted and put its
\* own object under its own key.
C21_KeyFromContentSourceUrl ==
    /\ \A r \in Workers :
         model_hash[r] # NoHash =>
             model_hash[r] = ResolvedBytes(r)
                             \o <<"format", "coreml", "nms", "True">>
                             \o <<"source", request[r].source, "url">>
                             \o request[r].url
    /\ \A r1, r2 \in Workers :
         (/\ model_hash[r1] # NoHash /\ model_hash[r2] # NoHash
          /\ ResolvedBytes(r1) = ResolvedBytes(r2)) =>
             IF request[r1].source = request[r2].source
                /\ request[r1].url = request[r2].url
             THEN /\ model_hash[r1] = model_hash[r2]
                  /\ (pc[r1] = "done" /\ pc[r2] = "done") =>
                       /\ resp[r1].download_url.key = resp[r2].download_url.key
                       /\ Cardinality({k \in DOMAIN store :
                                         k.hash = model_hash[r1]}) = 1
             ELSE /\ model_hash[r1] # model_hash[r2]
                  /\ (pc[r1] = "done" /\ pc[r2] = "done") =>
                       /\ resp[r1].download_url.key # resp[r2].download_url.key
                       /\ {resp[r1].download_url.key, resp[r2].download_url.key}
                              \subseteq DOMAIN store
                       /\ \A r \in {r1, r2} :
                              Ran(r, "export", TRUE) /\ Ran(r, "put", TRUE)

\* C21 witness: a request was answered from the cache entry that a request
\* with another name and another token had stored.
C21_SharedAcrossNameAndToken ==
    \E r1, r2 \in Workers :
        /\ pc[r1] = "done" /\ pc[r2] = "done"
        /\ request[r1].name # request[r2].name
        /\ request[r1].token # request[r2].token
        /\ Ran(r1, "put", TRUE)
        /\ probe[r2].answer = "found"
        /\ resp[r1].download_url.key = resp[r2].download_url.key

=============================================================================
